---- MODULE Spec2Model ----
(***************************************************************************)
(* react-ws-kit: the shared-socket engine of the useSocket hook.           *)
(*                                                                         *)
(* The state is the heap the hook closures share: the socketStore map,     *)
(* the SocketInstance objects (an instance stays reachable from the        *)
(* handlers of the transports it created even after it left the store),    *)
(* the WebSocket objects with their readyState, the timeouts pending in    *)
(* the scheduler, and the React state of every hook.  Every handler of     *)
(* useSocket.ts is one action; the transport and the scheduler are the     *)
(* environment and deliver open / message / error / close events and timer *)
(* firings.  The calls a handler makes to the platform (WebSocket.send,    *)
(* the parser, console.error) are kept for one step in `out`.  The key a   *)
(* hook shares its socket under is derived from the arguments of its       *)
(* useSocket call by createSocketKey (hash.ts); the dashboard interface of *)
(* store.ts clears queues by key.  A handler that runs into a loop that    *)
(* does not end never returns and leaves no state behind.                  *)
(***************************************************************************)
EXTENDS Integers, Sequences, FiniteSets, TLC

(* ----------------------------- bounds ---------------------------------- *)
MaxObjects == 3          \* SocketInstance and WebSocket objects ever allocated
MaxHistory == 2          \* inbound messages the hooks keep in allData, all together
MaxRaceObjects == 4      \* objects allocated in the runs with three transports

Hooks == {"h1", "h2", "h3"}
Keys  == {"A", "B"}
Msgs  == {"m1", "m2"}

\* An outgoing value JSON.stringify throws on (a cyclic object), and a frame
\* whose text JSON.parse throws on.
Cyclic == "cyclic"
Malformed == "{"

DefaultReconnectDelay == 1000

Infinity == -1           \* stands for the JS value Infinity (never reached by a counter)

NULL == 0                \* null / undefined reference

Undefined == "undefined" \* the value of a state that was never set

\* The message { type: 'pong' }, the answer to a heartbeat ping.
Pong == "pong"

(* ------------------------- configuration ------------------------------- *)
\* NormalizedOptions, the fields the engine reads.
normalizeOptions(ar, ra, rd, qm, mqs) ==
    [autoReconnect |-> ar, reconnectAttempts |-> ra, reconnectDelay |-> rd,
     queueMessages |-> qm, maxQueueSize |-> mqs]

DefaultOptions == normalizeOptions(FALSE, Infinity, DefaultReconnectDelay, FALSE, 50)

\* The configurations the hooks of the model are created with.
Configs ==
    { DefaultOptions,
      normalizeOptions(TRUE, 2, DefaultReconnectDelay, TRUE, 1) }

(* --------------------------- key deriver -------------------------------- *)
\* An optional field of Options: absent, or present with a value.
Absent == <<>>
Given(v) == <<v>>

\* options?.field ?? default
orDefault(field, default) == IF field = Absent THEN default ELSE field[1]

\* The protocols option: undefined, one protocol, or an array of protocols.
NoProtocols == [kind |-> "undefined", value |-> <<>>]
OneProtocol(t) == [kind |-> "string", value |-> <<t>>]
ProtocolArray(ts) == [kind |-> "array", value |-> ts]

\* The options a hook can be called with.  The functions parse and serialize
\* are left to their defaults; the heartbeat option is one the README
\* documents.
Options(ac, protocols, ar, ra, rd, qm, mqs, key, hb) ==
    [autoConnect |-> ac, protocols |-> protocols, autoReconnect |-> ar,
     reconnectAttempts |-> ra, reconnectDelay |-> rd, queueMessages |-> qm,
     maxQueueSize |-> mqs, key |-> key, heartbeat |-> hb]

\* normalizeOptions on an Options object: the fields the engine reads, and
\* autoConnect, protocols and key next to them.  No other option is read.
NormalizedOptions(options) ==
    normalizeOptions(orDefault(options.autoReconnect, FALSE),
                     orDefault(options.reconnectAttempts, Infinity),
                     orDefault(options.reconnectDelay, DefaultReconnectDelay),
                     orDefault(options.queueMessages, FALSE),
                     orDefault(options.maxQueueSize, 50))
      @@ [autoConnect |-> orDefault(options.autoConnect, FALSE),
          protocols |-> options.protocols,
          key |-> options.key]

\* The protocol names of the model, in the order of their UTF-16 code units.
Tokens == <<"a", "b">>

rank(t) == CHOOSE n \in 1..Len(Tokens) : Tokens[n] = t

\* Array.prototype.sort() with the default comparison.
RECURSIVE sort(_)
sort(ts) ==
    IF ts = <<>> THEN <<>>
    ELSE LET m == CHOOSE m \in 1..Len(ts) : \A n \in 1..Len(ts) : rank(ts[m]) <= rank(ts[n])
         IN  <<ts[m]>> \o sort(SubSeq(ts, 1, m - 1) \o SubSeq(ts, m + 1, Len(ts)))

\* Array.prototype.join(separator)
RECURSIVE join(_, _)
join(parts, separator) ==
    IF parts = <<>> THEN ""
    ELSE IF Len(parts) = 1 THEN parts[1]
    ELSE parts[1] \o separator \o join(Tail(parts), separator)

\* `${value}` of a boolean and of a number
boolText(b) == IF b THEN "true" ELSE "false"
numberText(n) == IF n = Infinity THEN "Infinity" ELSE ToString(n)

\* Mutant: the protocols are joined in the order the caller listed them.
createSocketKey_Unsorted(url, c) ==
    LET proto == IF c.protocols.kind = "undefined" THEN <<>>
                 ELSE IF c.protocols.kind = "array"
                 THEN <<"proto:" \o join(c.protocols.value, ",")>>
                 ELSE <<"proto:" \o c.protocols.value[1]>>
        ident == IF c.key # Absent /\ c.key[1] # ""
                 THEN <<"key:" \o c.key[1]>>
                 ELSE <<"ph:default-parse", "sh:default-serialize">>
    IN  join(<<url>> \o proto
               \o << "ar:" \o boolText(c.autoReconnect),
                     "ra:" \o numberText(c.reconnectAttempts),
                     "rd:" \o numberText(c.reconnectDelay),
                     "qm:" \o boolText(c.queueMessages),
                     "mqs:" \o numberText(c.maxQueueSize) >>
               \o ident, "|")

\* createSocketKey(url, config): the parts of the key joined with "|".
createSocketKey(url, c) ==
    LET proto == IF c.protocols.kind = "undefined" THEN <<>>
                 ELSE IF c.protocols.kind = "array"
                 THEN <<"proto:" \o join(sort(c.protocols.value), ",")>>
                 ELSE <<"proto:" \o c.protocols.value[1]>>
        ident == IF c.key # Absent /\ c.key[1] # ""
                 THEN <<"key:" \o c.key[1]>>
                 ELSE <<"ph:default-parse", "sh:default-serialize">>
    IN  join(<<url>> \o proto
               \o << "ar:" \o boolText(c.autoReconnect),
                     "ra:" \o numberText(c.reconnectAttempts),
                     "rd:" \o numberText(c.reconnectDelay),
                     "qm:" \o boolText(c.queueMessages),
                     "mqs:" \o numberText(c.maxQueueSize) >>
               \o ident, "|")

\* The useSocket call of a hook: its arguments, and the socketKey ref (not
\* computed yet).
Call(url, options) == [url |-> url, options |-> options, socketKey |-> Undefined]

\* socketKey of a hook: h1 and h2 are created with the same url and options,
\* h3 with another url.
socketKey(h) == IF h = "h3" THEN "B" ELSE "A"

VARIABLES
    store,      \* socketStore.sockets : key -> instance reference (NULL = absent)
    inst,       \* heap of SocketInstance objects, in creation order
    ws,         \* heap of WebSocket objects, in creation order
    tmr,        \* per instance: the delay of the pending timeout whose callback
                \* reconnects it (0: none pending; every delay of the model is > 0)
    hook,       \* per hook: isConnectedRef, status, lastReturnedData and allData
                \* (its ref and React state)
    config,     \* per key: the normalized options of the hooks of that key
    out,        \* the calls the last handler made to the platform, in order:
                \* WebSocket.send, config.parse and console.error
    probe,      \* the platform operations whose calls are recorded in this run
    use         \* per hook: the url and the options its useSocket call was given,
                \* and its socketKey ref once createSocketKey has computed it

vars == <<store, inst, ws, tmr, hook, config, out, probe, use>>

\* The whole heap as one value, threaded through the handlers; a handler starts
\* with no platform call made.  hung: the handler is in a loop that does not
\* end, so it never returns.
Cur == [store |-> store, inst |-> inst, ws |-> ws, tmr |-> tmr, hook |-> hook,
        out |-> <<>>, hung |-> FALSE]

\* The fields of a SocketInstance as getOrCreateInstance creates it.
NewInstance(k) ==
    [socket |-> NULL, key |-> k, status |-> "disconnected",
     subscribers |-> <<>>, refCount |-> 0,
     reconnectAttemptsMade |-> 0, messageQueue |-> <<>>,
     killed |-> FALSE, reconnectTimer |-> FALSE]

\* Instance i can still be reached: from the store, from a pending timeout, or
\* from the handlers of a transport that has events to deliver.
Reachable(S, i) ==
    \/ S.store[S.inst[i].key] = i
    \/ S.tmr[i] > 0
    \/ \E w \in 1..Len(S.ws) : S.ws[w].owner = i /\ S.ws[w].phase # "CLOSED"

\* An instance nothing can reach any more is garbage: the heap keeps its slot
\* and forgets its fields.
Collect(S) ==
    [S EXCEPT !.inst = [i \in 1..Len(S.inst) |->
                          IF Reachable(S, i) \/ S.inst[i].refCount # 0
                          THEN S.inst[i]
                          ELSE NewInstance(S.inst[i].key)]]

\* The state a handler leaves when it returns; a handler that does not return
\* leaves none.
Commit(S) ==
    LET T == Collect(S)
    IN  /\ ~T.hung
        /\ store' = T.store
        /\ inst'  = T.inst
        /\ ws'    = T.ws
        /\ tmr'   = T.tmr
        /\ hook'  = T.hook
        /\ out'   = SelectSeq(T.out, LAMBDA c : c.op \in probe)
        /\ UNCHANGED <<config, probe, use>>

(* --------------------------- transport --------------------------------- *)
\* Life of a WebSocket object.  FAILED: the error event was dispatched and the
\* close event is still to come; CLOSED: the close event was dispatched.
Phases == {"CONNECTING", "OPEN", "CLOSING", "FAILED", "CLOSED"}

\* WebSocket.readyState as the code reads it.
readyState(S, w) ==
    IF w = NULL THEN "none"
    ELSE IF S.ws[w].phase \in {"FAILED", "CLOSED"} THEN "CLOSED"
    ELSE S.ws[w].phase

\* WebSocket.close(): starts the closing handshake of a live transport.
wsClose(S, w) ==
    IF w # NULL /\ S.ws[w].phase \in {"CONNECTING", "OPEN"}
    THEN [S EXCEPT !.ws[w].phase = "CLOSING"]
    ELSE S

(* ------------------------- platform calls ------------------------------ *)
\* JSON.stringify as defaultSerialize uses it: the text, or a throw.
defaultSerialize(data) ==
    IF data = Cyclic THEN [ok |-> FALSE, text |-> ""]
    ELSE [ok |-> TRUE, text |-> "\"" \o data \o "\""]

\* JSON.parse as defaultParse uses it: the value, or a throw.
defaultParse(text) ==
    IF \E m \in Msgs \cup {Pong} : defaultSerialize(m).text = text
    THEN [ok |-> TRUE,
          value |-> CHOOSE m \in Msgs \cup {Pong} : defaultSerialize(m).text = text]
    ELSE [ok |-> FALSE, value |-> ""]

\* The frames a server sends.
Frames == {defaultSerialize(m).text : m \in Msgs} \cup {Malformed}

call(S, op, w, arg) == [S EXCEPT !.out = Append(@, [op |-> op, on |-> w, arg |-> arg])]

\* WebSocket.send on an open transport (the handlers call it on no other).
wsSend(S, w, text) == call(S, "send", w, text)

consoleError(S, text) == call(S, "error", NULL, text)

(* ------------------------------ store ---------------------------------- *)
storeGet(S, k) == S.store[k]
storeSet(S, k, i) == [S EXCEPT !.store[k] = i]
storeDelete(S, k) == [S EXCEPT !.store[k] = NULL]

\* Mutant: the queues of all the entries of the store are emptied.
clearQueue_AllEntries(S, k) ==
    [S EXCEPT !.inst = [i \in 1..Len(S.inst) |->
                          IF S.store[S.inst[i].key] = i
                          THEN [S.inst[i] EXCEPT !.messageQueue = <<>>]
                          ELSE S.inst[i]]]

\* socketStore.clearQueue(key), as getSocketStore() exposes it.
clearQueue(S, k) ==
    IF S.store[k] = NULL THEN S
    ELSE [S EXCEPT !.inst[S.store[k]].messageQueue = <<>>]

(* --------------------------- hook helpers ------------------------------ *)
InSeq(x, s) == \E n \in 1..Len(s) : s[n] = x

\* Mutant: the subscriber stays in the set.
RemoveFirst_Keeps(s, x) == s

\* Set.delete of the first (only) subscriber object with this id.
RemoveFirst(s, x) ==
    LET n == CHOOSE n \in 1..Len(s) : s[n] = x /\ \A m \in 1..(n-1) : s[m] # x
    IN  SubSeq(s, 1, n-1) \o SubSeq(s, n+1, Len(s))

setStatus(S, h, st) == [S EXCEPT !.hook[h].status = st]

\* Mutant: no lookup before the insert, every call registers a new instance.
getOrCreateInstance_NoLookup(S, h) ==
    LET i == Len(S.inst) + 1
    IN  storeSet([S EXCEPT !.inst = Append(@, NewInstance(socketKey(h))),
                           !.tmr = Append(@, 0)],
                 socketKey(h), i)

getOrCreateInstance(S, h) ==
    IF storeGet(S, socketKey(h)) # NULL THEN S
    ELSE LET i == Len(S.inst) + 1
         IN  storeSet([S EXCEPT !.inst = Append(@, NewInstance(socketKey(h))),
                                !.tmr = Append(@, 0)],
                      socketKey(h), i)

\* Mutant: the fan-out stops after the first subscriber.
updateAllSubscribers_FirstOnly(S, i, newStatus) ==
    [S EXCEPT !.inst[i].status = newStatus,
              !.hook = [h \in Hooks |->
                          IF Len(S.inst[i].subscribers) > 0 /\ S.inst[i].subscribers[1] = h
                          THEN [S.hook[h] EXCEPT !.status = newStatus]
                          ELSE S.hook[h]]]

updateAllSubscribers(S, i, newStatus) ==
    [S EXCEPT !.inst[i].status = newStatus,
              !.hook = [h \in Hooks |->
                          IF InSeq(h, S.inst[i].subscribers)
                          THEN [S.hook[h] EXCEPT !.status = newStatus]
                          ELSE S.hook[h]]]

\* if (instance.reconnectTimer) { clearTimeout(...); instance.reconnectTimer = null }
clearReconnectTimer(S, i) ==
    IF S.inst[i].reconnectTimer
    THEN [S EXCEPT !.inst[i].reconnectTimer = FALSE, !.tmr[i] = 0]
    ELSE S

\* serialize and send one value on transport w; a throw is caught and reported.
transmit(S, w, data, report) ==
    IF defaultSerialize(data).ok
    THEN wsSend(S, w, defaultSerialize(data).text)
    ELSE consoleError(S, report)

RECURSIVE drain(_, _, _)
drain(S, w, q) ==
    IF q = <<>> THEN S
    ELSE drain(transmit(S, w, Head(q), "Error flushing queued message"), w, Tail(q))

\* The queue is drained into instance.socket, whichever transport that is.
flushQueue(S, i) ==
    IF readyState(S, S.inst[i].socket) # "OPEN" THEN S
    ELSE [drain(S, S.inst[i].socket, S.inst[i].messageQueue)
            EXCEPT !.inst[i].messageQueue = <<>>]

\* Mutant: one attempt more than reconnectAttempts is allowed.
Exhausted_OneMore(made, max) == max # Infinity /\ made > max

Exhausted(made, max) == max # Infinity /\ made >= max

\* Mutant: every retry waits the base delay.
scheduleReconnect_FlatDelay(S, i) ==
    LET c  == config[S.inst[i].key]
        S1 == clearReconnectTimer(S, i)
    IN  IF S1.inst[i].killed \/ ~c.autoReconnect THEN S1
        ELSE IF Exhausted(S1.inst[i].reconnectAttemptsMade, c.reconnectAttempts)
        THEN updateAllSubscribers(S1, i, "error")
        ELSE LET S2 == [S1 EXCEPT !.inst[i].reconnectAttemptsMade = @ + 1]
                 S3 == updateAllSubscribers(S2, i, "reconnecting")
             IN  [S3 EXCEPT !.inst[i].reconnectTimer = TRUE, !.tmr[i] = c.reconnectDelay]

scheduleReconnect(S, i) ==
    LET c  == config[S.inst[i].key]
        S1 == clearReconnectTimer(S, i)
    IN  IF S1.inst[i].killed \/ ~c.autoReconnect THEN S1
        ELSE IF Exhausted(S1.inst[i].reconnectAttemptsMade, c.reconnectAttempts)
        THEN updateAllSubscribers(S1, i, "error")
        ELSE LET S2 == [S1 EXCEPT !.inst[i].reconnectAttemptsMade = @ + 1]
                 S3 == updateAllSubscribers(S2, i, "reconnecting")
             IN  [S3 EXCEPT !.inst[i].reconnectTimer = TRUE,
                            !.tmr[i] = c.reconnectDelay * S2.inst[i].reconnectAttemptsMade]

\* Mutant: the new transport is not stored in instance.socket.
connectSocket_DropsHandle(S, i, throws) ==
    IF readyState(S, S.inst[i].socket) = "OPEN"
    THEN updateAllSubscribers(S, i, "connected")
    ELSE IF readyState(S, S.inst[i].socket) = "CONNECTING"
    THEN updateAllSubscribers(S, i, "connecting")
    ELSE LET S1 == clearReconnectTimer(S, i)
             S2 == updateAllSubscribers(S1, i, "connecting")
         IN  IF ~throws
             THEN [S2 EXCEPT !.ws = Append(@, [phase |-> "CONNECTING", owner |-> i])]
             ELSE LET S3 == updateAllSubscribers(consoleError(S2, "Connection error"),
                                                 i, "error")
                  IN  IF ~S3.inst[i].killed /\ config[S3.inst[i].key].autoReconnect
                      THEN scheduleReconnect(S3, i)
                      ELSE S3

\* Mutant: a pending reconnect timeout survives the creation of a transport.
connectSocket_KeepsTimer(S, i, throws) ==
    IF readyState(S, S.inst[i].socket) = "OPEN"
    THEN updateAllSubscribers(S, i, "connected")
    ELSE IF readyState(S, S.inst[i].socket) = "CONNECTING"
    THEN updateAllSubscribers(S, i, "connecting")
    ELSE LET S2 == updateAllSubscribers(S, i, "connecting")
         IN  IF ~throws
             THEN [S2 EXCEPT !.ws = Append(@, [phase |-> "CONNECTING", owner |-> i]),
                             !.inst[i].socket = Len(S2.ws) + 1]
             ELSE LET S3 == updateAllSubscribers(consoleError(S2, "Connection error"),
                                                 i, "error")
                  IN  IF ~S3.inst[i].killed /\ config[S3.inst[i].key].autoReconnect
                      THEN scheduleReconnect(S3, i)
                      ELSE S3

\* throws: whether `new WebSocket(url, protocols)` throws.
connectSocket(S, i, throws) ==
    IF readyState(S, S.inst[i].socket) = "OPEN"
    THEN updateAllSubscribers(S, i, "connected")
    ELSE IF readyState(S, S.inst[i].socket) = "CONNECTING"
    THEN updateAllSubscribers(S, i, "connecting")
    ELSE LET S1 == clearReconnectTimer(S, i)
             S2 == updateAllSubscribers(S1, i, "connecting")
         IN  IF ~throws
             THEN [S2 EXCEPT !.ws = Append(@, [phase |-> "CONNECTING", owner |-> i]),
                             !.inst[i].socket = Len(S2.ws) + 1]
             ELSE LET S3 == updateAllSubscribers(consoleError(S2, "Connection error"),
                                                 i, "error")
                  IN  IF ~S3.inst[i].killed /\ config[S3.inst[i].key].autoReconnect
                      THEN scheduleReconnect(S3, i)
                      ELSE S3

\* ws.onopen of the transport w, a closure over the instance that created it.
onopen(S, w) ==
    LET i  == S.ws[w].owner
        S1 == [S EXCEPT !.inst[i].reconnectAttemptsMade = 0]
        S2 == updateAllSubscribers(S1, i, "connected")
    IN  flushQueue(S2, i)

\* Mutant: every subscriber runs the parser on the frame for itself.
onmessage_ParsePerSubscriber(S, w, text) ==
    LET i  == S.ws[w].owner
        r  == defaultParse(text)
        RECURSIVE each(_, _)
        each(T, subs) ==
            IF subs = <<>> THEN T
            ELSE LET T1 == call(T, "parse", w, text)
                     T2 == IF r.ok
                           THEN [T1 EXCEPT !.hook[Head(subs)].lastReturnedData = r.value,
                                           !.hook[Head(subs)].allData = Append(@, r.value)]
                           ELSE consoleError(T1, "Parse error")
                 IN  each(T2, Tail(subs))
    IN  each(S, S.inst[i].subscribers)

\* Mutant: the value goes to every hook of the key, subscribed or not.
onmessage_AllHooksOfKey(S, w, text) ==
    LET i  == S.ws[w].owner
        S1 == call(S, "parse", w, text)
        r  == defaultParse(text)
    IN  IF r.ok
        THEN [S1 EXCEPT !.hook = [h \in Hooks |->
                                    IF socketKey(h) = S.inst[i].key
                                    THEN [S.hook[h] EXCEPT !.lastReturnedData = r.value,
                                                           !.allData = Append(@, r.value)]
                                    ELSE S.hook[h]]]
        ELSE consoleError(S1, "Parse error")

\* Mutant: the value is put in front of the history.
onmessage_Prepends(S, w, text) ==
    LET i  == S.ws[w].owner
        S1 == call(S, "parse", w, text)
        r  == defaultParse(text)
    IN  IF r.ok
        THEN [S1 EXCEPT !.hook = [h \in Hooks |->
                                    IF InSeq(h, S.inst[i].subscribers)
                                    THEN [S.hook[h] EXCEPT !.lastReturnedData = r.value,
                                                           !.allData = <<r.value>> \o @]
                                    ELSE S.hook[h]]]
        ELSE consoleError(S1, "Parse error")

\* Mutant: a frame that does not parse puts the entry in the error status.
onmessage_FailureIsError(S, w, text) ==
    LET i  == S.ws[w].owner
        S1 == call(S, "parse", w, text)
        r  == defaultParse(text)
    IN  IF r.ok
        THEN [S1 EXCEPT !.hook = [h \in Hooks |->
                                    IF InSeq(h, S.inst[i].subscribers)
                                    THEN [S.hook[h] EXCEPT !.lastReturnedData = r.value,
                                                           !.allData = Append(@, r.value)]
                                    ELSE S.hook[h]]]
        ELSE updateAllSubscribers(consoleError(S1, "Parse error"), i, "error")

\* ws.onmessage of the transport w.  The frame is parsed once and the value is
\* given to every subscriber of the instance (sub.isConnected is set when the
\* subscriber object is created and never reset, so the test on it always passes);
\* a throw of the parser is caught and reported.
\* Mutant: the value is appended to the histories only.
onmessage_HistoryOnly(S, w, text) ==
    LET i  == S.ws[w].owner
        S1 == call(S, "parse", w, text)
        r  == defaultParse(text)
    IN  IF r.ok
        THEN [S1 EXCEPT !.hook = [h \in Hooks |->
                                    IF InSeq(h, S.inst[i].subscribers)
                                    THEN [S.hook[h] EXCEPT !.allData = Append(@, r.value)]
                                    ELSE S.hook[h]]]
        ELSE consoleError(S1, "Parse error")

onmessage(S, w, text) ==
    LET i  == S.ws[w].owner
        S1 == call(S, "parse", w, text)
        r  == defaultParse(text)
    IN  IF r.ok
        THEN [S1 EXCEPT !.hook = [h \in Hooks |->
                                    IF InSeq(h, S.inst[i].subscribers)
                                    THEN [S.hook[h] EXCEPT !.lastReturnedData = r.value,
                                                           !.allData = Append(@, r.value)]
                                    ELSE S.hook[h]]]
        ELSE consoleError(S1, "Parse error")

onerror(S, w) ==
    updateAllSubscribers(consoleError(S, "WebSocket error"), S.ws[w].owner, "error")

\* Mutant: a close never leads to a reconnect.
onclose_NeverReconnects(S, w) ==
    LET i  == S.ws[w].owner
        S1 == [S EXCEPT !.inst[i].socket = NULL]
    IN  updateAllSubscribers(S1, i, "disconnected")

\* Mutant: the close handler does not look at the reference count.
onclose_IgnoresRefCount(S, w) ==
    LET i  == S.ws[w].owner
        S1 == [S EXCEPT !.inst[i].socket = NULL]
    IN  IF ~S1.inst[i].killed /\ config[S1.inst[i].key].autoReconnect
        THEN scheduleReconnect(S1, i)
        ELSE updateAllSubscribers(S1, i, "disconnected")

onclose(S, w) ==
    LET i  == S.ws[w].owner
        S1 == [S EXCEPT !.inst[i].socket = NULL]
    IN  IF ~S1.inst[i].killed /\ config[S1.inst[i].key].autoReconnect
           /\ S1.inst[i].refCount > 0
        THEN scheduleReconnect(S1, i)
        ELSE updateAllSubscribers(S1, i, "disconnected")

\* Mutant: connect() does not reset the kill flag.
connect_KeepsKilled(S, h, throws) ==
    LET S1 == getOrCreateInstance(S, h)
        i  == storeGet(S1, socketKey(h))
        S2 == IF ~S1.hook[h].isConnectedRef
              THEN setStatus([S1 EXCEPT !.inst[i].subscribers = Append(@, h),
                                        !.inst[i].refCount = @ + 1,
                                        !.hook[h].isConnectedRef = TRUE],
                             h, S1.inst[i].status)
              ELSE S1
    IN  connectSocket(S2, i, throws)

\* Mutant: the reference count is incremented on every connect().
connect_CountsEveryCall(S, h, throws) ==
    LET S1 == getOrCreateInstance(S, h)
        i  == storeGet(S1, socketKey(h))
        S2 == IF ~S1.hook[h].isConnectedRef
              THEN setStatus([S1 EXCEPT !.inst[i].subscribers = Append(@, h),
                                        !.hook[h].isConnectedRef = TRUE],
                             h, S1.inst[i].status)
              ELSE S1
        S3 == [S2 EXCEPT !.inst[i].killed = FALSE, !.inst[i].refCount = @ + 1]
    IN  connectSocket(S3, i, throws)

\* Mutant: every connect() registers a subscriber, attached already or not.
connect_BindsEveryCall(S, h, throws) ==
    LET S1 == getOrCreateInstance(S, h)
        i  == storeGet(S1, socketKey(h))
        S2 == setStatus([S1 EXCEPT !.inst[i].subscribers = Append(@, h),
                                   !.inst[i].refCount = @ + 1,
                                   !.hook[h].isConnectedRef = TRUE],
                        h, S1.inst[i].status)
        S3 == [S2 EXCEPT !.inst[i].killed = FALSE]
    IN  connectSocket(S3, i, throws)

connect(S, h, throws) ==
    LET S1 == getOrCreateInstance(S, h)
        i  == storeGet(S1, socketKey(h))
        S2 == IF ~S1.hook[h].isConnectedRef
              THEN setStatus([S1 EXCEPT !.inst[i].subscribers = Append(@, h),
                                        !.inst[i].refCount = @ + 1,
                                        !.hook[h].isConnectedRef = TRUE],
                             h, S1.inst[i].status)
              ELSE S1
        S3 == [S2 EXCEPT !.inst[i].killed = FALSE]
    IN  connectSocket(S3, i, throws)

\* Mutant: the teardown test is off by one (refCount <= 1).
disconnect_TearsDownAtOne(S, h) ==
    LET i == storeGet(S, socketKey(h))
    IN  IF i = NULL \/ ~S.hook[h].isConnectedRef THEN S
        ELSE LET S1 == IF InSeq(h, S.inst[i].subscribers)
                       THEN [S EXCEPT !.inst[i].subscribers = RemoveFirst(@, h),
                                      !.inst[i].refCount = @ - 1,
                                      !.hook[h].isConnectedRef = FALSE]
                       ELSE S
                 S2 == IF S1.inst[i].refCount <= 1
                       THEN LET T1 == clearReconnectTimer(S1, i)
                                T2 == [wsClose(T1, T1.inst[i].socket)
                                         EXCEPT !.inst[i].socket = NULL]
                            IN  storeDelete(T2, socketKey(h))
                       ELSE S1
             IN  setStatus(S2, h, "disconnected")

\* Mutant: the teardown forgets socketStore.delete(socketKey).
disconnect_KeepsEntry(S, h) ==
    LET i == storeGet(S, socketKey(h))
    IN  IF i = NULL \/ ~S.hook[h].isConnectedRef THEN S
        ELSE LET S1 == IF InSeq(h, S.inst[i].subscribers)
                       THEN [S EXCEPT !.inst[i].subscribers = RemoveFirst(@, h),
                                      !.inst[i].refCount = @ - 1,
                                      !.hook[h].isConnectedRef = FALSE]
                       ELSE S
                 S2 == IF S1.inst[i].refCount <= 0
                       THEN LET T1 == clearReconnectTimer(S1, i)
                            IN  [wsClose(T1, T1.inst[i].socket)
                                   EXCEPT !.inst[i].socket = NULL]
                       ELSE S1
             IN  setStatus(S2, h, "disconnected")

\* Mutant: the test of isConnectedRef is missing and the count is decremented
\* on every call.
disconnect_NoRefGuard(S, h) ==
    LET i == storeGet(S, socketKey(h))
    IN  IF i = NULL THEN S
        ELSE LET S1 == [S EXCEPT !.inst[i].subscribers =
                                     IF InSeq(h, @) THEN RemoveFirst(@, h) ELSE @,
                                 !.inst[i].refCount = @ - 1,
                                 !.hook[h].isConnectedRef = FALSE]
                 S2 == IF S1.inst[i].refCount <= 0
                       THEN LET T1 == clearReconnectTimer(S1, i)
                                T2 == [wsClose(T1, T1.inst[i].socket)
                                         EXCEPT !.inst[i].socket = NULL]
                            IN  storeDelete(T2, socketKey(h))
                       ELSE S1
             IN  setStatus(S2, h, "disconnected")

\* Mutant: the status disconnected is given to every subscriber of the entry.
disconnect_TellsEveryone(S, h) ==
    LET i == storeGet(S, socketKey(h))
    IN  IF i = NULL \/ ~S.hook[h].isConnectedRef THEN S
        ELSE LET S0 == updateAllSubscribers(S, i, "disconnected")
                 S1 == IF InSeq(h, S0.inst[i].subscribers)
                       THEN [S0 EXCEPT !.inst[i].subscribers = RemoveFirst(@, h),
                                       !.inst[i].refCount = @ - 1,
                                       !.hook[h].isConnectedRef = FALSE]
                       ELSE S0
                 S2 == IF S1.inst[i].refCount <= 0
                       THEN LET T1 == clearReconnectTimer(S1, i)
                                T2 == [wsClose(T1, T1.inst[i].socket)
                                         EXCEPT !.inst[i].socket = NULL]
                            IN  storeDelete(T2, socketKey(h))
                       ELSE S1
             IN  setStatus(S2, h, "disconnected")

disconnect(S, h) ==
    LET i == storeGet(S, socketKey(h))
    IN  IF i = NULL \/ ~S.hook[h].isConnectedRef THEN S
        ELSE LET S1 == IF InSeq(h, S.inst[i].subscribers)
                       THEN [S EXCEPT !.inst[i].subscribers = RemoveFirst(@, h),
                                      !.inst[i].refCount = @ - 1,
                                      !.hook[h].isConnectedRef = FALSE]
                       ELSE S
                 S2 == IF S1.inst[i].refCount <= 0
                       THEN LET T1 == clearReconnectTimer(S1, i)
                                T2 == [wsClose(T1, T1.inst[i].socket)
                                         EXCEPT !.inst[i].socket = NULL]
                            IN  storeDelete(T2, socketKey(h))
                       ELSE S1
             IN  setStatus(S2, h, "disconnected")

\* The loop `while (queue.length > maxQueueSize) queue.shift()`, one iteration
\* per unfolding.  shift() on an empty array removes nothing, so the test just
\* made is made again with the same outcome: the loop does not end.
RECURSIVE shiftWhileOver(_, _)
shiftWhileOver(q, maxQueueSize) ==
    IF ~(Len(q) > maxQueueSize) THEN [ends |-> TRUE, queue |-> q]
    ELSE IF q = <<>> THEN [ends |-> FALSE, queue |-> q]
    ELSE shiftWhileOver(Tail(q), maxQueueSize)

\* Mutant: the newest entries are dropped instead of the oldest.
dropOldest_DropsNewest(q, maxQueueSize) ==
    IF Len(q) > maxQueueSize /\ Len(q) > 0
    THEN SubSeq(q, 1, maxQueueSize)
    ELSE q

\* The queue the loop leaves (where it does not end: the queue it spins on).
dropOldest(q, maxQueueSize) == shiftWhileOver(q, maxQueueSize).queue

\* Mutant: the message is queued whether queueMessages is set or not.
send_QueuesAlways(S, h, data) ==
    LET i == storeGet(S, socketKey(h))
        c == config[socketKey(h)]
    IN  IF i = NULL THEN consoleError(S, "Cannot send: no instance found")
        ELSE IF readyState(S, S.inst[i].socket) = "OPEN"
        THEN transmit(S, S.inst[i].socket, data, "Send error")
        ELSE [S EXCEPT !.inst[i].messageQueue = dropOldest(Append(@, data), c.maxQueueSize)]

\* Mutant: a value that cannot be serialized on an open transport is queued.
send_QueuesOnFailure(S, h, data) ==
    LET i == storeGet(S, socketKey(h))
        c == config[socketKey(h)]
    IN  IF i = NULL THEN consoleError(S, "Cannot send: no instance found")
        ELSE IF readyState(S, S.inst[i].socket) = "OPEN" /\ defaultSerialize(data).ok
        THEN transmit(S, S.inst[i].socket, data, "Send error")
        ELSE IF c.queueMessages
        THEN [S EXCEPT !.inst[i].messageQueue = dropOldest(Append(@, data), c.maxQueueSize)]
        ELSE consoleError(S, "Cannot send: not connected and queueMessages is false")

send(S, h, data) ==
    LET i == storeGet(S, socketKey(h))
        c == config[socketKey(h)]
    IN  IF i = NULL THEN consoleError(S, "Cannot send: no instance found")
        ELSE IF readyState(S, S.inst[i].socket) = "OPEN"
        THEN transmit(S, S.inst[i].socket, data, "Send error")
        ELSE IF c.queueMessages
        THEN LET pushed == Append(S.inst[i].messageQueue, data)
             IN  [S EXCEPT !.inst[i].messageQueue = dropOldest(pushed, c.maxQueueSize),
                           !.hung = ~shiftWhileOver(pushed, c.maxQueueSize).ends]
        ELSE consoleError(S, "Cannot send: not connected and queueMessages is false")

\* Mutant: the kill also empties the outgoing queue.
killSocketForAllSubscribers_ClearsQueue(S, h) ==
    LET i == storeGet(S, socketKey(h))
    IN  IF i = NULL THEN S
        ELSE LET S1 == [S EXCEPT !.inst[i].killed = TRUE, !.inst[i].messageQueue = <<>>]
                 S2 == clearReconnectTimer(S1, i)
                 S3 == [wsClose(S2, S2.inst[i].socket) EXCEPT !.inst[i].socket = NULL]
             IN  updateAllSubscribers(S3, i, "disconnected")

\* Mutant: the kill leaves a pending reconnect timer alone.
killSocketForAllSubscribers_KeepsTimer(S, h) ==
    LET i == storeGet(S, socketKey(h))
    IN  IF i = NULL THEN S
        ELSE LET S1 == [S EXCEPT !.inst[i].killed = TRUE]
                 S3 == [wsClose(S1, S1.inst[i].socket) EXCEPT !.inst[i].socket = NULL]
             IN  updateAllSubscribers(S3, i, "disconnected")

\* Mutant: the kill reaches the entries of all keys.
RECURSIVE killEvery(_, _)
killEvery(S, ks) ==
    IF ks = {} THEN S
    ELSE LET k  == CHOOSE x \in ks : TRUE
             i  == S.store[k]
             S1 == IF i = NULL THEN S
                   ELSE LET T1 == [S EXCEPT !.inst[i].killed = TRUE]
                            T2 == clearReconnectTimer(T1, i)
                            T3 == [wsClose(T2, T2.inst[i].socket) EXCEPT !.inst[i].socket = NULL]
                        IN  updateAllSubscribers(T3, i, "disconnected")
         IN  killEvery(S1, ks \ {k})

killSocketForAllSubscribers_AllKeys(S, h) ==
    IF storeGet(S, socketKey(h)) = NULL THEN S ELSE killEvery(S, Keys)

\* Mutant: the kill leaves the status as it was.
killSocketForAllSubscribers_KeepsStatus(S, h) ==
    LET i == storeGet(S, socketKey(h))
    IN  IF i = NULL THEN S
        ELSE LET S1 == [S EXCEPT !.inst[i].killed = TRUE]
                 S2 == clearReconnectTimer(S1, i)
             IN  [wsClose(S2, S2.inst[i].socket) EXCEPT !.inst[i].socket = NULL]

killSocketForAllSubscribers(S, h) ==
    LET i == storeGet(S, socketKey(h))
    IN  IF i = NULL THEN S
        ELSE LET S1 == [S EXCEPT !.inst[i].killed = TRUE]
                 S2 == clearReconnectTimer(S1, i)
                 S3 == [wsClose(S2, S2.inst[i].socket) EXCEPT !.inst[i].socket = NULL]
             IN  updateAllSubscribers(S3, i, "disconnected")

(* ------------------------------ actions -------------------------------- *)
\* A hook as its first render leaves it.  A detached hook in this state is not
\* told apart from the hook that is rendered in its place after an unmount.
FreshHook ==
    [isConnectedRef |-> FALSE, status |-> "disconnected",
     lastReturnedData |-> Undefined, allData |-> <<>>]

\* The first render of hook h when its key is to have the normalized options c:
\* the call it made (h1 and h2 with one url, h3 with another; hb: its
\* heartbeat option) and the socketKey ref computed from it.
FirstRender(h, c, hb) ==
    LET url == IF h = "h3" THEN "ws://y/" ELSE "ws://x/"
        options == Options(Absent, NoProtocols, Given(c.autoReconnect),
                           Given(c.reconnectAttempts), Given(c.reconnectDelay),
                           Given(c.queueMessages), Given(c.maxQueueSize), Absent, hb)
    IN  [Call(url, options) EXCEPT
           !.socketKey = createSocketKey(url, NormalizedOptions(options))]

\* The hooks of HS are about to be rendered, with options from CS and the
\* heartbeat option hb; a key no hook of HS uses keeps the default options.
InitCalled(HS, CS, recorded, hb) ==
    /\ store = [k \in Keys |-> NULL]
    /\ inst = <<>>
    /\ ws = <<>>
    /\ tmr = <<>>
    /\ hook = [h \in Hooks |-> FreshHook]
    /\ config \in [Keys -> CS \cup {DefaultOptions}]
    /\ \A k \in Keys : IF \E h \in HS : socketKey(h) = k
                       THEN config[k] \in CS
                       ELSE config[k] = DefaultOptions
    /\ out = <<>>
    /\ probe = recorded
    /\ use = [h \in Hooks |-> FirstRender(h, config[socketKey(h)], hb)]

\* The same, no hook asking for a heartbeat.
InitWith(HS, CS, recorded) == InitCalled(HS, CS, recorded, Absent)

InitOf(HS) == InitWith(HS, Configs, {})

\* The number of messages the hooks of HS hold in their histories.
RECURSIVE historyKept(_, _)
historyKept(S, HS) ==
    IF HS = {} THEN 0
    ELSE LET h == CHOOSE g \in HS : TRUE
         IN  Len(S.hook[h].allData) + historyKept(S, HS \ {h})

\* The heap stays within the bounds of the model.
Fits(S) ==
    /\ Len(S.inst) + Len(S.ws) <= MaxObjects
    /\ historyKept(S, Hooks) <= MaxHistory

\* The first render of hook h: useRef(createSocketKey(url, config)).
Render(h) ==
    /\ use[h].socketKey = Undefined
    /\ use' = [use EXCEPT ![h].socketKey =
                   createSocketKey(use[h].url, NormalizedOptions(use[h].options))]
    /\ UNCHANGED <<store, inst, ws, tmr, hook, config, out, probe>>

\* The mount effect of a freshly rendered hook: connect() when autoConnect is set.
MountWith(h, autoConnect, throws) ==
    /\ hook[h] = FreshHook
    /\ LET S1 == IF autoConnect THEN connect(Cur, h, throws) ELSE Cur
       IN  Fits(S1) /\ Commit(S1)

Mount(h) ==
    \E autoConnect \in BOOLEAN, throws \in BOOLEAN :
        /\ autoConnect \/ ~throws
        /\ MountWith(h, autoConnect, throws)

\* connect() called by the consumer of hook h; throws: the transport
\* constructor throws.
ConnectWith(h, throws) ==
    LET S1 == connect(Cur, h, throws)
    IN  Fits(S1) /\ Commit(S1)

Connect(h) == \E throws \in BOOLEAN : ConnectWith(h, throws)

Disconnect(h) ==
    /\ storeGet(Cur, socketKey(h)) # NULL
    /\ hook[h].isConnectedRef
    /\ Commit(disconnect(Cur, h))

\* disconnect() called by the consumer of hook h in any state, attached or not.
DisconnectAnytime(h) == Commit(disconnect(Cur, h))

\* The cleanup of the mount effect; the hook's ref and state go with it.
Unmount(h) ==
    Commit([disconnect(Cur, h) EXCEPT !.hook[h] = FreshHook])

Send(h, data) == Commit(send(Cur, h, data))

Kill(h) ==
    /\ storeGet(Cur, socketKey(h)) # NULL
    /\ Commit(killSocketForAllSubscribers(Cur, h))

\* getSocketStore().clearQueue(key) called by a dashboard, for any key.
ClearQueue(k) == Commit(clearQueue(Cur, k))

\* The scheduler runs a pending reconnect timeout of instance i.
TimerFires(i) ==
    /\ tmr[i] > 0
    /\ \E throws \in BOOLEAN :
          LET S0 == [Cur EXCEPT !.tmr[i] = 0, !.inst[i].reconnectTimer = FALSE]
              S1 == connectSocket(S0, i, throws)
          IN  /\ Fits(S1)
              /\ Commit(S1)

SocketOpens(w) ==
    /\ ws[w].phase = "CONNECTING"
    /\ Commit(onopen([Cur EXCEPT !.ws[w].phase = "OPEN"], w))

\* A frame arrives on the transport w; frames still arrive while it is closing.
SocketMessage(w, text) ==
    /\ ws[w].phase \in {"OPEN", "CLOSING"}
    /\ LET S1 == onmessage(Cur, w, text)
       IN  Fits(S1) /\ Commit(S1)

SocketErrors(w) ==
    /\ ws[w].phase \in {"CONNECTING", "OPEN", "CLOSING"}
    /\ Commit(onerror([Cur EXCEPT !.ws[w].phase = "FAILED"], w))

SocketCloses(w) ==
    /\ ws[w].phase \in {"CONNECTING", "OPEN", "CLOSING", "FAILED"}
    /\ Commit(onclose([Cur EXCEPT !.ws[w].phase = "CLOSED"], w))

\* One step of the system with the hooks HS and the outgoing messages MS.
Step(HS, MS) ==
    \/ \E h \in HS : Mount(h)
    \/ \E h \in HS : Connect(h)
    \/ \E h \in HS : Disconnect(h)
    \/ \E h \in HS : Unmount(h)
    \/ \E h \in HS : \E data \in MS : Send(h, data)
    \/ \E h \in HS : Kill(h)
    \/ \E i \in 1..Len(inst) : TimerFires(i)
    \/ \E w \in 1..Len(ws) : SocketOpens(w)
    \/ \E w \in 1..Len(ws) : SocketErrors(w)
    \/ \E w \in 1..Len(ws) : SocketCloses(w)

\* Two hooks sharing one key.
Init == InitOf({"h1", "h2"})
Next == Step({"h1", "h2"}, {"m1"})
Spec == Init /\ [][Next]_vars

\* Two hooks sharing one key with the default options, a transport constructor
\* that does not throw and a server that sends frames; the calls of the parser
\* are recorded.
InitMsg == InitWith({"h1", "h2"}, {DefaultOptions}, {"parse"})
NextMsg ==
    \/ \E h \in {"h1", "h2"} : \E autoConnect \in BOOLEAN : MountWith(h, autoConnect, FALSE)
    \/ \E h \in {"h1", "h2"} : ConnectWith(h, FALSE)
    \/ \E h \in {"h1", "h2"} : Disconnect(h)
    \/ \E h \in {"h1", "h2"} : Unmount(h)
    \/ \E h \in {"h1", "h2"} : Kill(h)
    \/ \E w \in 1..Len(ws) : SocketOpens(w)
    \/ \E w \in 1..Len(ws) : SocketErrors(w)
    \/ \E w \in 1..Len(ws) : SocketCloses(w)
    \/ \E w \in 1..Len(ws) : \E text \in Frames : SocketMessage(w, text)
SpecMsg == InitMsg /\ [][NextMsg]_vars

\* Two hooks sharing one key with a queue of two messages and no reconnection;
\* the consumer sends values, one of them not serializable; the transmissions
\* and the console errors are recorded.
InitQueue ==
    InitWith({"h1", "h2"}, {normalizeOptions(FALSE, Infinity, DefaultReconnectDelay, TRUE, 2)},
             {"send", "error"})
NextQueue ==
    \/ \E h \in {"h1", "h2"} : \E autoConnect \in BOOLEAN : MountWith(h, autoConnect, FALSE)
    \/ \E h \in {"h1", "h2"} : ConnectWith(h, FALSE)
    \/ \E h \in {"h1", "h2"} : Disconnect(h)
    \/ \E h \in {"h1", "h2"} : Unmount(h)
    \/ \E h \in {"h1", "h2"} : \E data \in Msgs \cup {Cyclic} : Send(h, data)
    \/ \E h \in {"h1", "h2"} : Kill(h)
    \/ \E w \in 1..Len(ws) : SocketOpens(w)
    \/ \E w \in 1..Len(ws) : SocketErrors(w)
    \/ \E w \in 1..Len(ws) : SocketCloses(w)
SpecQueue == InitQueue /\ [][NextQueue]_vars

\* Two hooks sharing one key with the default options (no queueing, no
\* reconnection); the consumer sends values; the transmissions and the console
\* errors are recorded.
InitDrop == InitWith({"h1", "h2"}, {DefaultOptions}, {"send", "error"})
SpecDrop == InitDrop /\ [][NextQueue]_vars

\* Two hooks sharing one key that reconnects up to three times with the
\* default base delay.
InitRetry ==
    InitWith({"h1", "h2"}, {normalizeOptions(TRUE, 3, DefaultReconnectDelay, FALSE, 50)}, {})
NextRetry ==
    \/ \E h \in {"h1", "h2"} : Mount(h)
    \/ \E h \in {"h1", "h2"} : Connect(h)
    \/ \E h \in {"h1", "h2"} : Disconnect(h)
    \/ \E h \in {"h1", "h2"} : Unmount(h)
    \/ \E h \in {"h1", "h2"} : Kill(h)
    \/ \E i \in 1..Len(inst) : TimerFires(i)
    \/ \E w \in 1..Len(ws) : SocketOpens(w)
    \/ \E w \in 1..Len(ws) : SocketErrors(w)
    \/ \E w \in 1..Len(ws) : SocketCloses(w)
SpecRetry == InitRetry /\ [][NextRetry]_vars

\* Two hooks sharing one key that queues one message and reconnects once; the
\* server sends one frame; disconnect() is called in any state.
InitDetach ==
    InitWith({"h1", "h2"}, {normalizeOptions(TRUE, 1, DefaultReconnectDelay, TRUE, 1)}, {})
NextDetach ==
    \/ \E h \in {"h1", "h2"} : Mount(h)
    \/ \E h \in {"h1", "h2"} : Connect(h)
    \/ \E h \in {"h1", "h2"} : DisconnectAnytime(h)
    \/ \E h \in {"h1", "h2"} : Unmount(h)
    \/ \E h \in {"h1", "h2"} : Send(h, "m1")
    \/ \E h \in {"h1", "h2"} : Kill(h)
    \/ \E i \in 1..Len(inst) : TimerFires(i)
    \/ \E w \in 1..Len(ws) : SocketOpens(w)
    \/ \E w \in 1..Len(ws) : SocketErrors(w)
    \/ \E w \in 1..Len(ws) : SocketCloses(w)
    \/ \E w \in 1..Len(ws) : SocketMessage(w, defaultSerialize("m1").text)
SpecDetach == InitDetach /\ [][NextDetach]_vars

\* Two hooks with different keys, each key queueing one message and
\* reconnecting once; a dashboard clears queues by key.
InitKeys ==
    InitWith({"h1", "h3"}, {normalizeOptions(TRUE, 1, DefaultReconnectDelay, TRUE, 1)}, {})
NextKeys ==
    \/ \E h \in {"h1", "h3"} : Mount(h)
    \/ \E h \in {"h1", "h3"} : Connect(h)
    \/ \E h \in {"h1", "h3"} : Disconnect(h)
    \/ \E h \in {"h1", "h3"} : Unmount(h)
    \/ \E h \in {"h1", "h3"} : Send(h, "m1")
    \/ \E h \in {"h1", "h3"} : Kill(h)
    \/ \E k \in Keys : ClearQueue(k)
    \/ \E i \in 1..Len(inst) : TimerFires(i)
    \/ \E w \in 1..Len(ws) : SocketOpens(w)
    \/ \E w \in 1..Len(ws) : SocketErrors(w)
    \/ \E w \in 1..Len(ws) : SocketCloses(w)
SpecKeys == InitKeys /\ [][NextKeys]_vars

\* The options of the calls whose keys are derived: any protocols, explicit
\* key and autoConnect, and at most one of the five settings set away from its
\* default.
Settings ==
    { <<Absent, Absent, Absent, Absent, Absent>>,
      <<Given(TRUE), Absent, Absent, Absent, Absent>>,
      <<Absent, Given(3), Absent, Absent, Absent>>,
      <<Absent, Absent, Given(2000), Absent, Absent>>,
      <<Absent, Absent, Absent, Given(TRUE), Absent>>,
      <<Absent, Absent, Absent, Absent, Given(1)>> }

Calls ==
    { Call(url, Options(ac, protocols, z[1], z[2], z[3], z[4], z[5], key, Absent)) :
        url \in {"ws://x/", "ws://x/|proto:a"},
        ac \in {Absent, Given(TRUE)},
        protocols \in {NoProtocols, OneProtocol("a"),
                       ProtocolArray(<<"a", "b">>), ProtocolArray(<<"b", "a">>)},
        z \in Settings,
        key \in {Absent, Given("k")} }

\* Two hooks called with any two urls and options; each render derives the key
\* of its hook.
InitKey ==
    /\ store = [k \in Keys |-> NULL]
    /\ inst = <<>>
    /\ ws = <<>>
    /\ tmr = <<>>
    /\ hook = [h \in Hooks |-> FreshHook]
    /\ config = [k \in Keys |-> DefaultOptions]
    /\ out = <<>>
    /\ probe = {}
    /\ \E c1, c2 \in Calls :
          use = [h \in Hooks |-> IF h = "h1" THEN c1
                                 ELSE IF h = "h2" THEN c2
                                 ELSE FirstRender(h, DefaultOptions, Absent)]
NextKey == \E h \in {"h1", "h2"} : Render(h)
SpecKey == InitKey /\ [][NextKey]_vars

\* Two hooks sharing one key, called with the default options and
\* heartbeat: { enabled: true }; the server sends a message and answers pings
\* with pongs; the calls of the parser are recorded.
InitPong ==
    InitCalled({"h1", "h2"}, {DefaultOptions}, {"parse"}, Given([enabled |-> TRUE]))
NextPong ==
    \/ \E h \in {"h1", "h2"} : \E autoConnect \in BOOLEAN : MountWith(h, autoConnect, FALSE)
    \/ \E h \in {"h1", "h2"} : ConnectWith(h, FALSE)
    \/ \E h \in {"h1", "h2"} : Disconnect(h)
    \/ \E h \in {"h1", "h2"} : Unmount(h)
    \/ \E w \in 1..Len(ws) : SocketOpens(w)
    \/ \E w \in 1..Len(ws) : SocketErrors(w)
    \/ \E w \in 1..Len(ws) : SocketCloses(w)
    \/ \E w \in 1..Len(ws) :
          \E text \in {defaultSerialize("m1").text, defaultSerialize(Pong).text} :
              SocketMessage(w, text)
SpecPong == InitPong /\ [][NextPong]_vars

\* connect() and the timeout callback in the runs that allow an entry three
\* transports; the transport constructor does not throw.
ConnectRace(h) ==
    LET S1 == connect(Cur, h, FALSE)
    IN  Len(S1.inst) + Len(S1.ws) <= MaxRaceObjects /\ Commit(S1)

TimerFiresRace(i) ==
    /\ tmr[i] > 0
    /\ LET S0 == [Cur EXCEPT !.tmr[i] = 0, !.inst[i].reconnectTimer = FALSE]
           S1 == connectSocket(S0, i, FALSE)
       IN  Len(S1.inst) + Len(S1.ws) <= MaxRaceObjects /\ Commit(S1)

\* Two hooks sharing one key that reconnects once: connect(), disconnect(),
\* kill, timeouts and transport events in any order.
InitRace ==
    InitWith({"h1", "h2"}, {normalizeOptions(TRUE, 1, DefaultReconnectDelay, FALSE, 50)}, {})
NextRace ==
    \/ \E h \in {"h1", "h2"} : ConnectRace(h)
    \/ \E h \in {"h1", "h2"} : Disconnect(h)
    \/ \E h \in {"h1", "h2"} : Kill(h)
    \/ \E i \in 1..Len(inst) : TimerFiresRace(i)
    \/ \E w \in 1..Len(ws) : SocketOpens(w)
    \/ \E w \in 1..Len(ws) : SocketErrors(w)
    \/ \E w \in 1..Len(ws) : SocketCloses(w)
SpecRace == InitRace /\ [][NextRace]_vars

\* Two hooks sharing one key that queues, with maxQueueSize -1, 0 or 1 and no
\* reconnection; the consumer sends values.
QueueSizes == {-1, 0, 1}
InitSize ==
    InitWith({"h1", "h2"},
             {normalizeOptions(FALSE, Infinity, DefaultReconnectDelay, TRUE, n) : n \in QueueSizes},
             {})
SpecSize == InitSize /\ [][NextQueue]_vars

TypeOK ==
    /\ \A k \in Keys : store[k] \in 0..Len(inst)
    /\ \A w \in 1..Len(ws) : ws[w].phase \in Phases


(* ------------------------- derived notions ----------------------------- *)
Instances == 1..Len(inst)

\* The instance is the entry the registry holds for its key.
Registered(i) == store[inst[i].key] = i

Attached(h, i) == InSeq(h, inst[i].subscribers)

\* The transport the entry held before the step is no longer connecting or open.
TransportClosedByStep(i) ==
    inst[i].socket # NULL => ws'[inst[i].socket].phase \notin {"CONNECTING", "OPEN"}

(* ------------------------------ claims --------------------------------- *)

\* C1: two hooks with equal keys that are attached at the same time are
\* attached to the one entry the registry holds for that key, and a connect()
\* on a key that has an entry reuses it: no instance is created and the key
\* keeps its entry.
C1_SharedEntry ==
    /\ [](\A h \in Hooks : hook[h].isConnectedRef =>
            /\ store[socketKey(h)] # NULL
            /\ \A i \in Instances : Attached(h, i) <=> i = store[socketKey(h)])
    /\ [][\A k \in Keys : store[k] # NULL /\ store'[k] # NULL =>
            /\ store'[k] = store[k]
            /\ \A i \in 1..Len(inst') : i > Len(inst) => inst'[i].key # k]_vars

C1_Witness ==
    \E i \in Instances :
        /\ Registered(i)
        /\ inst[i].subscribers = <<"h1", "h2">>
        /\ hook["h1"].isConnectedRef /\ hook["h2"].isConnectedRef

\* C2: for every entry the reference count equals the number of subscribers
\* in its subscriber set.
C2_RefCountIsSize ==
    \A i \in Instances :
        /\ inst[i].refCount = Len(inst[i].subscribers)
        /\ \A m, n \in 1..Len(inst[i].subscribers) :
              inst[i].subscribers[m] = inst[i].subscribers[n] => m = n

\* An entry that lost a subscriber and a transport, with one subscriber left.
C2_Witness ==
    \E i \in Instances :
        /\ Registered(i)
        /\ inst[i].refCount = 1
        /\ inst[i].status = "reconnecting"
        /\ \E h \in Hooks : socketKey(h) = inst[i].key /\ ~hook[h].isConnectedRef

\* C3: a detach (disconnect() or unmount) at reference count 2 leaves the entry
\* registered with its transport untouched and the other subscriber attached;
\* the detach at reference count 1 brings the count to 0, closes the transport,
\* cancels the pending reconnect timer and removes the entry from the registry.
C3_TeardownAtLastDetach ==
    [][\A h \in Hooks : \A i \in Instances :
          (Attached(h, i) /\ Registered(i) /\ ~hook'[h].isConnectedRef) =>
             IF inst[i].refCount >= 2
             THEN /\ store'[inst[i].key] = i
                  /\ inst'[i].refCount = inst[i].refCount - 1
                  /\ inst'[i].socket = inst[i].socket
                  /\ ws' = ws
                  /\ tmr' = tmr
                  /\ \A g \in Hooks \ {h} : Attached(g, i) => InSeq(g, inst'[i].subscribers)
             ELSE /\ store'[inst[i].key] = NULL
                  /\ inst'[i].refCount = 0
                  /\ inst'[i].socket = NULL
                  /\ TransportClosedByStep(i)
                  /\ tmr'[i] = 0 /\ ~inst'[i].reconnectTimer]_vars

\* One subscriber left on an open transport after the other hook detached.
C3_Witness ==
    \E i \in Instances :
        /\ Registered(i) /\ inst[i].refCount = 1
        /\ inst[i].socket # NULL /\ ws[inst[i].socket].phase = "OPEN"
        /\ inst[i].status = "connected"
        /\ \E h \in Hooks : socketKey(h) = inst[i].key /\ ~hook[h].isConnectedRef

\* C4: an instance is the registry's entry for its key exactly when at least
\* one hook is attached to it, killed or not.
C4_EntryIffSubscribed ==
    \A i \in Instances : Registered(i) <=> inst[i].refCount >= 1

\* A killed entry that stays registered next to one that was torn down.
C4_Witness ==
    /\ \E i \in Instances : Registered(i) /\ inst[i].killed /\ inst[i].refCount >= 1
    /\ \E i \in Instances : ~Registered(i)

\* C5: each subscriber attached to an entry observes the entry's status.
C5_StatusInSync ==
    \A i \in Instances : \A h \in Hooks :
        Attached(h, i) => hook[h].status = inst[i].status

\* Two subscribers on an entry whose status has moved on from the initial one.
C5_Witness ==
    \E i \in Instances :
        /\ Len(inst[i].subscribers) = 2
        /\ inst[i].status \in {"connected", "reconnecting", "error"}

\* C6: right after killSocketForAllSubscribers() on an existing entry the kill
\* flag is set, the previous transport is closed and the entry holds no
\* transport handle, no reconnect timer is pending, and the queue, the
\* subscriber set, the reference count and the registry are as before.
C6_KillEffect ==
    [][\A h \in Hooks : Kill(h) =>
          LET i == store[socketKey(h)]
          IN  /\ inst'[i].killed
              /\ inst'[i].socket = NULL
              /\ TransportClosedByStep(i)
              /\ tmr'[i] = 0 /\ ~inst'[i].reconnectTimer
              /\ inst'[i].messageQueue = inst[i].messageQueue
              /\ inst'[i].subscribers = inst[i].subscribers
              /\ inst'[i].refCount = inst[i].refCount
              /\ store' = store]_vars

\* A killed auto-reconnecting entry: transport closing, queue and both
\* subscribers kept.
C6_Witness ==
    \E i \in Instances :
        /\ Registered(i) /\ inst[i].killed
        /\ config[inst[i].key].autoReconnect
        /\ Len(inst[i].messageQueue) >= 1
        /\ inst[i].refCount = 2
        /\ \E w \in 1..Len(ws) : ws[w].owner = i /\ ws[w].phase = "CLOSING"

\* C7: while the kill flag of an entry is set no reconnect timer is pending for
\* it and no step opens a transport for it.
C7_NoReconnectWhileKilled ==
    /\ [](\A i \in Instances : inst[i].killed => tmr[i] = 0 /\ ~inst[i].reconnectTimer)
    /\ [][\A i \in Instances : inst'[i].killed =>
             \A w \in 1..Len(ws') : w > Len(ws) => ws'[w].owner # i]_vars

\* A killed auto-reconnecting entry that a transport error reached after the
\* kill (the kill itself leaves the status disconnected).
C7_Witness ==
    \E i \in Instances :
        /\ Registered(i) /\ inst[i].killed
        /\ config[inst[i].key].autoReconnect
        /\ inst[i].status = "error"

\* C8: while the kill flag of an entry is set every subscriber attached to it
\* observes the status disconnected.
C8_KilledObservedDisconnected ==
    \A i \in Instances : inst[i].killed =>
        \A h \in Hooks : Attached(h, i) => hook[h].status = "disconnected"

\* connect() is called by hook h, from the mount effect or by the consumer.
\* (A connect() by h leaves h attached, the other hooks' refs and the existing
\* transports alone: steps that do not are told apart before connect is run.)
ConnectCalled(h, throws) ==
    /\ hook'[h].isConnectedRef
    /\ \A g \in Hooks \ {h} : hook'[g].isConnectedRef = hook[g].isConnectedRef
    /\ Len(ws') >= Len(ws) /\ \A w \in 1..Len(ws) : ws'[w] = ws[w]
    /\ (ConnectWith(h, throws) \/ MountWith(h, TRUE, throws))

\* The step gave entry i a new transport, now connecting.
NewTransport(i) ==
    /\ Len(ws') = Len(ws) + 1
    /\ ws'[Len(ws')] = [phase |-> "CONNECTING", owner |-> i]
    /\ inst'[i].socket = Len(ws')

\* After the step every subscriber of entry i observes one of the statuses.
AllObserveAfter(i, statuses) ==
    /\ inst'[i].status \in statuses
    /\ \A g \in Hooks : InSeq(g, inst'[i].subscribers) => hook'[g].status = inst'[i].status

\* Whenever a transport opens, every subscriber of its entry observes connected.
OpenIsObserved ==
    \A w \in 1..Len(ws) : ws[w].phase = "CONNECTING" /\ ws'[w].phase = "OPEN" =>
        AllObserveAfter(ws[w].owner, {"connected"})

\* C9 as stated: connect() on a killed entry clears the kill flag, opens a new
\* transport and every subscriber observes connecting; when a transport opens
\* every subscriber observes connected.
C9_ConnectAfterKill_Original ==
    [][/\ \A h \in Hooks : \A i \in Instances :
            (Registered(i) /\ inst[i].key = socketKey(h) /\ inst[i].killed
               /\ (ConnectCalled(h, FALSE) \/ ConnectCalled(h, TRUE))) =>
                 /\ ~inst'[i].killed
                 /\ NewTransport(i)
                 /\ AllObserveAfter(i, {"connecting"})
       /\ OpenIsObserved]_vars

\* C9 amended: as C9 when constructing the transport does not throw; when it
\* throws the kill flag is cleared all the same, no transport is opened and
\* every subscriber observes error or reconnecting.
C9_ConnectAfterKill ==
    [][/\ \A h \in Hooks : \A i \in Instances :
            (Registered(i) /\ inst[i].key = socketKey(h) /\ inst[i].killed) =>
                 /\ ConnectCalled(h, FALSE) =>
                      /\ ~inst'[i].killed
                      /\ NewTransport(i)
                      /\ AllObserveAfter(i, {"connecting"})
                 /\ ConnectCalled(h, TRUE) =>
                      /\ ~inst'[i].killed
                      /\ ws' = ws /\ inst'[i].socket = NULL
                      /\ AllObserveAfter(i, {"error", "reconnecting"})
       /\ OpenIsObserved]_vars

\* An entry connected again on a second transport while the transport the kill
\* closed is still closing, both subscribers observing connected.
C9_Witness ==
    \E i \in Instances :
        /\ Registered(i) /\ ~inst[i].killed
        /\ inst[i].refCount = 2 /\ inst[i].status = "connected"
        /\ hook["h1"].status = "connected" /\ hook["h2"].status = "connected"
        /\ inst[i].socket # NULL /\ ws[inst[i].socket].phase = "OPEN"
        /\ \E w \in 1..Len(ws) : ws[w].owner = i /\ ws[w].phase = "CLOSING"

CallsTo(op) == SelectSeq(out, LAMBDA c : c.op = op)

\* The step is the arrival of the frame text on the transport w.  (The arrival
\* of a frame leaves the store, the instances, the transports and the timers
\* alone: steps that do not are told apart before the handler is run.)
Arrives(w, text) ==
    /\ store' = store /\ inst' = inst /\ ws' = ws /\ tmr' = tmr
    /\ SocketMessage(w, text)

\* C11: the handling of an inbound frame runs the parser once, on that frame;
\* when the frame parses, every subscriber attached to the transport's entry
\* gets the value as its last message and once more at the end of its history;
\* when it does not, no hook changes.
C11_FanOutOnce ==
    [][\A w \in 1..Len(ws) : \A text \in Frames : Arrives(w, text) =>
          LET i == ws[w].owner
              r == defaultParse(text)
          IN  /\ CallsTo("parse")' = <<[op |-> "parse", on |-> w, arg |-> text]>>
              /\ r.ok => \A h \in Hooks : Attached(h, i) =>
                            /\ hook'[h].lastReturnedData = r.value
                            /\ hook'[h].allData = Append(hook[h].allData, r.value)
              /\ ~r.ok => hook' = hook]_vars

\* Both subscribers of an entry hold the frame that was just parsed once.
C11_Witness ==
    \E i \in Instances :
        /\ inst[i].subscribers = <<"h1", "h2">>
        /\ Len(CallsTo("parse")) = 1
        /\ hook["h1"].allData = <<"m2">> /\ hook["h1"].lastReturnedData = "m2"
        /\ hook["h2"].allData = <<"m2">> /\ hook["h2"].lastReturnedData = "m2"

\* C12: a message changes the last message and the history of no hook that is
\* not attached to the entry at the moment of the fan-out, and attaching to an
\* entry copies nothing into the history: a hook that attaches after a message
\* arrived does not hold it.
C12_HistoryPerSubscriber ==
    [][/\ \A w \in 1..Len(ws) : \A text \in Frames : Arrives(w, text) =>
             \A h \in Hooks : ~Attached(h, ws[w].owner) =>
                 /\ hook'[h].allData = hook[h].allData
                 /\ hook'[h].lastReturnedData = hook[h].lastReturnedData
       /\ \A h \in Hooks : ~hook[h].isConnectedRef /\ hook'[h].isConnectedRef =>
             /\ hook'[h].allData = hook[h].allData
             /\ hook'[h].lastReturnedData = hook[h].lastReturnedData]_vars

\* A holds [M]; B attached to the same entry afterwards and holds nothing.
C12_Witness ==
    \E i \in Instances :
        /\ inst[i].subscribers = <<"h1", "h2">>
        /\ hook["h1"].allData = <<"m1">>
        /\ hook["h2"].allData = <<>> /\ hook["h2"].lastReturnedData = Undefined
        /\ hook["h2"].status = "connected"

\* C13 as stated: the history holds the messages received since the latest
\* connect(); in particular it is empty when a connect() has just attached
\* the hook.
C13_HistorySinceAttach_Original ==
    [][\A h \in Hooks : ~hook[h].isConnectedRef /\ hook'[h].isConnectedRef =>
          hook'[h].allData = <<>>]_vars

\* C13 amended: the history of a hook is the ordered sequence of the messages
\* the entries it was attached to decoded while it was attached, since the
\* hook was mounted: a decoded message is appended at the end, disconnect() and
\* connect() leave the history as it is, and only the unmount discards it.
C13_HistorySinceMount ==
    [][\A h \in Hooks :
          /\ \A w \in 1..Len(ws) : \A text \in Frames :
                (Arrives(w, text) /\ Attached(h, ws[w].owner) /\ defaultParse(text).ok) =>
                    hook'[h].allData = Append(hook[h].allData, defaultParse(text).value)
          /\ hook'[h].allData # hook[h].allData =>
                \/ Unmount(h) /\ hook'[h].allData = <<>>
                \/ \E w \in 1..Len(ws) : \E text \in Frames :
                      Arrives(w, text) /\ Attached(h, ws[w].owner)
                         /\ defaultParse(text).ok]_vars

\* A hook that is attached again after a disconnect() still holds the message
\* of its earlier binding, followed by one received since.
C13_Witness ==
    \E i \in Instances :
        /\ inst[i].subscribers = <<"h2", "h1">>
        /\ hook["h1"].allData = <<"m1", "m2">>
        /\ hook["h2"].allData = <<>>

\* C14: a step that finds a hook detached and leaves it detached changes
\* nothing of that hook (status, last message, history), unless it is the
\* unmount of the hook.
C14_NoDeliveryAfterDetach ==
    [][\A h \in Hooks :
          (~hook[h].isConnectedRef /\ ~hook'[h].isConnectedRef /\ hook'[h] # hook[h]) =>
              Unmount(h)]_vars

\* A detached hook keeps what it had while the other subscriber of the entry
\* is connected and has received a later message.
C14_Witness ==
    \E i \in Instances :
        /\ inst[i].subscribers = <<"h2">> /\ inst[i].status = "connected"
        /\ ~hook["h1"].isConnectedRef
        /\ hook["h1"].allData = <<"m1">> /\ hook["h1"].status = "disconnected"
        /\ hook["h2"].allData = <<"m2">>

\* The step is a send(data) by hook h.  (A send leaves the store, the
\* transports, the timers and the hooks alone: steps that do not are told
\* apart before the handler is run.)
Sends(h, data) ==
    /\ store' = store /\ ws' = ws /\ tmr' = tmr /\ hook' = hook
    /\ Send(h, data)

\* q is the end of the sequence s.
IsSuffix(q, s) ==
    /\ Len(q) <= Len(s)
    /\ \A n \in 1..Len(q) : q[n] = s[Len(s) - Len(q) + n]

C16_FlushOnOpen ==
    [][\A w \in 1..Len(ws) : (ws[w].phase = "CONNECTING" /\ SocketOpens(w)) =>
          LET q == inst[ws[w].owner].messageQueue
          IN  (q # <<>> /\ \A n \in 1..Len(q) : q[n] \in Msgs) =>
                 /\ inst'[ws[w].owner].messageQueue = <<>>
                 /\ CallsTo("send")' =
                       [n \in 1..Len(q) |->
                          [op |-> "send", on |-> w, arg |-> defaultSerialize(q[n]).text]]]_vars

\* C17: with queueing enabled, a send() by a hook that is not attached either
\* transmits the message at once or leaves it at the end of the queue of the
\* entry of its key.
C17_QueuedWhileDisconnected ==
    [][\A h \in Hooks : \A data \in Msgs :
          (Sends(h, data) /\ config[socketKey(h)].queueMessages /\ ~hook[h].isConnectedRef) =>
              \/ \E w \in 1..Len(ws) :
                    CallsTo("send")' = <<[op |-> "send", on |-> w,
                                          arg |-> defaultSerialize(data).text]>>
              \/ LET i == store'[socketKey(h)]
                 IN  /\ i # NULL
                     /\ inst'[i].messageQueue # <<>>
                     /\ inst'[i].messageQueue[Len(inst'[i].messageQueue)] = data]_vars

\* The retry counter and the pending delay of instance i before the step; an
\* instance the step creates starts with neither.
madeBefore(i) == IF i <= Len(inst) THEN inst[i].reconnectAttemptsMade ELSE 0
delayBefore(i) == IF i <= Len(inst) THEN tmr[i] ELSE 0

\* The step armed a reconnect timeout for instance i.
Armed(i) ==
    /\ tmr'[i] > 0
    /\ tmr'[i] # delayBefore(i) \/ inst'[i].reconnectAttemptsMade > madeBefore(i)

\* A transport of instance i opened in the step.
Opened(i) ==
    \E w \in 1..Len(ws) : ws[w].owner = i /\ ws[w].phase = "CONNECTING" /\ ws'[w].phase = "OPEN"

\* C18: a step that arms a reconnect timeout raises the retry counter by one
\* and arms the timeout with reconnectDelay times the new counter; the counter
\* changes in no other way than back to 0, when a transport of the entry opens
\* or the instance is discarded.
C18_LinearBackoff ==
    [][\A i \in 1..Len(inst') :
          /\ Armed(i) =>
                /\ inst'[i].reconnectAttemptsMade = madeBefore(i) + 1
                /\ tmr'[i] = config[inst'[i].key].reconnectDelay * inst'[i].reconnectAttemptsMade
          /\ inst'[i].reconnectAttemptsMade # madeBefore(i) =>
                \/ Armed(i)
                \/ inst'[i].reconnectAttemptsMade = 0
                      /\ (Opened(i) \/ inst'[i] = NewInstance(inst'[i].key))]_vars

\* The third retry in a row is pending with three times the base delay.
C18_Witness ==
    \E i \in Instances :
        /\ Registered(i) /\ config[inst[i].key].reconnectDelay = 1000
        /\ inst[i].reconnectAttemptsMade = 3 /\ tmr[i] = 3000
        /\ inst[i].status = "reconnecting"

\* The close event of transport w is handled in the step.
Closes(w) == ws[w].phase # "CLOSED" /\ ws'[w].phase = "CLOSED" /\ SocketCloses(w)

\* The step created a transport for instance i.
Attempts(i) == \E w \in 1..Len(ws') : w > Len(ws) /\ ws'[w].owner = i

\* Entry i retries and is in a position to: its options ask for it, it is not
\* killed and it has a subscriber.
Retries(i) == config[inst[i].key].autoReconnect /\ ~inst[i].killed /\ inst[i].refCount > 0

\* C19: the retry counter of an entry with reconnectAttempts = M never exceeds
\* M; when the counter is at M and the attempt fails (its transport closes, or
\* constructing it throws when the timeout fires) every subscriber observes
\* error and no timeout is armed; and while no timeout is pending a transport
\* is created for the entry only by a connect() of one of its hooks.
C19_RetriesBounded ==
    /\ [](\A i \in Instances : config[inst[i].key].reconnectAttempts # Infinity =>
              inst[i].reconnectAttemptsMade <= config[inst[i].key].reconnectAttempts)
    /\ [][\A i \in Instances :
             LET M == config[inst[i].key].reconnectAttempts
                 failed == \/ \E w \in 1..Len(ws) : ws[w].owner = i /\ Closes(w)
                           \/ tmr[i] > 0 /\ ws' = ws /\ TimerFires(i)
             IN  /\ (Retries(i) /\ inst[i].reconnectAttemptsMade = M /\ failed) =>
                       /\ AllObserveAfter(i, {"error"})
                       /\ tmr'[i] = 0 /\ ~inst'[i].reconnectTimer
                       /\ ~Attempts(i)
                 /\ (tmr[i] = 0 /\ Attempts(i)) =>
                       \E h \in Hooks : socketKey(h) = inst[i].key
                           /\ (ConnectCalled(h, FALSE) \/ ConnectCalled(h, TRUE))]_vars

\* Both subscribers observe error on an entry that used up its three retries
\* and has neither a transport nor a timeout.
C19_Witness ==
    \E i \in Instances :
        /\ Registered(i) /\ Retries(i) /\ inst[i].refCount = 2
        /\ inst[i].reconnectAttemptsMade = 3 /\ config[inst[i].key].reconnectAttempts = 3
        /\ inst[i].status = "error" /\ hook["h1"].status = "error" /\ hook["h2"].status = "error"
        /\ inst[i].socket = NULL /\ tmr[i] = 0

\* C20: the error event of a connecting transport makes every subscriber of
\* its entry observe error; when the failed attempt ends (the transport closes
\* without having opened, or constructing it throws) on a registered entry that
\* retries and has attempts left, a reconnect timeout is armed and the
\* subscribers observe reconnecting; and whenever a transport opens, every
\* subscriber attached to its entry observes connected.
C20_FailureThenReconnect ==
    [][/\ \A w \in 1..Len(ws) : (ws[w].phase = "CONNECTING" /\ SocketErrors(w)) =>
             AllObserveAfter(ws[w].owner, {"error"})
       /\ \A i \in Instances :
             LET c == config[inst[i].key]
                 ended == \/ \E w \in 1..Len(ws) : ws[w].owner = i /\ Closes(w)
                                /\ ws[w].phase \in {"CONNECTING", "FAILED"}
                          \/ tmr[i] > 0 /\ ws' = ws /\ TimerFires(i)
             IN  (Registered(i) /\ Retries(i) /\ ended
                    /\ ~Exhausted(inst[i].reconnectAttemptsMade, c.reconnectAttempts)) =>
                       /\ Armed(i) /\ inst'[i].reconnectTimer
                       /\ AllObserveAfter(i, {"reconnecting"})
       /\ \A i \in Instances : Opened(i) =>
             /\ AllObserveAfter(i, {"connected"})
             /\ inst'[i].reconnectAttemptsMade = 0]_vars

\* Both subscribers observe connected on the second transport of an entry
\* whose first transport failed.
C20_Witness ==
    \E i \in Instances :
        /\ Registered(i) /\ Retries(i) /\ inst[i].refCount = 2
        /\ Len(ws) = 2 /\ ws[1] = [phase |-> "CLOSED", owner |-> i]
        /\ inst[i].socket = 2 /\ ws[2] = [phase |-> "OPEN", owner |-> i]
        /\ inst[i].status = "connected"
        /\ hook["h1"].status = "connected" /\ hook["h2"].status = "connected"

\* C21: the handling of a frame the parser throws on changes no hook (status,
\* last message, history), no entry (status, transport handle, queue, retry
\* counter), no transport and no timer; and a frame that parses, arriving on
\* the same transport next, is still given to every subscriber of the entry.
C21_DecodeFailureIsolated ==
    [][\A w \in 1..Len(ws) : \A text \in Frames :
          (~defaultParse(text).ok /\ SocketMessage(w, text)) =>
              /\ hook' = hook /\ inst' = inst /\ store' = store
              /\ ws' = ws /\ tmr' = tmr
              /\ \A good \in Frames : defaultParse(good).ok =>
                    \A h \in Hooks : Attached(h, ws[w].owner) =>
                        (onmessage(Cur, w, good).hook[h].allData)' =
                            Append(hook[h].allData, defaultParse(good).value)]_vars

\* The parser has just thrown on a malformed frame; both subscribers keep the
\* message they held and observe connected.
C21_Witness ==
    \E i \in Instances :
        /\ inst[i].subscribers = <<"h1", "h2">> /\ inst[i].status = "connected"
        /\ \E w \in 1..Len(ws) :
              CallsTo("parse") = <<[op |-> "parse", on |-> w, arg |-> Malformed]>>
        /\ hook["h1"].allData = <<"m1">> /\ hook["h1"].lastReturnedData = "m1"
        /\ hook["h2"].allData = <<"m1">> /\ hook["h2"].status = "connected"

\* C22: a send() on an entry whose transport is open leaves the queue, the
\* entry, the transports, the timers and the hooks as they were; a value that
\* serializes is transmitted once, on the entry's transport, in that step, and
\* a value that does not is not transmitted at all.
C22_SendWhileOpen ==
    [][\A h \in Hooks : \A data \in Msgs \cup {Cyclic} :
          LET i == store[socketKey(h)]
          IN  (i # NULL /\ readyState(Cur, inst[i].socket) = "OPEN" /\ Send(h, data)) =>
                 /\ inst' = inst /\ store' = store /\ ws' = ws
                 /\ tmr' = tmr /\ hook' = hook
                 /\ CallsTo("send")' =
                       IF defaultSerialize(data).ok
                       THEN <<[op |-> "send", on |-> inst[i].socket,
                               arg |-> defaultSerialize(data).text]>>
                       ELSE <<>>]_vars

\* A send of a value that does not serialize has just been reported on a
\* connected entry: nothing was transmitted and the queue is empty.
C22_Witness ==
    \E i \in Instances :
        /\ Registered(i) /\ inst[i].status = "connected"
        /\ readyState(Cur, inst[i].socket) = "OPEN"
        /\ out = <<[op |-> "error", on |-> NULL, arg |-> "Send error"]>>
        /\ inst[i].messageQueue = <<>>

\* The entry of hook h's key, if there is one, holds no open transport.
NotOpen(h) ==
    store[socketKey(h)] = NULL
        \/ readyState(Cur, inst[store[socketKey(h)]].socket) # "OPEN"

\* C23: with queueing disabled the queue of every entry is empty at all times;
\* a send() that finds no open transport transmits nothing and leaves every
\* entry, transport, timer and hook as it was; and nothing is transmitted
\* later: every transmission is that of the value of a send() made in the same
\* step on an open transport.
C23_DroppedWhenNotQueueing ==
    /\ [](\A i \in Instances :
              ~config[inst[i].key].queueMessages => inst[i].messageQueue = <<>>)
    /\ [][/\ \A h \in Hooks : \A data \in Msgs \cup {Cyclic} :
               (~config[socketKey(h)].queueMessages /\ NotOpen(h) /\ Send(h, data)) =>
                   /\ inst' = inst /\ store' = store /\ ws' = ws
                   /\ tmr' = tmr /\ hook' = hook
                   /\ CallsTo("send")' = <<>>
          /\ CallsTo("send")' # <<>> =>
               \E h \in Hooks : \E data \in Msgs :
                   /\ ~NotOpen(h) /\ Send(h, data)
                   /\ CallsTo("send")' =
                         <<[op |-> "send", on |-> inst[store[socketKey(h)]].socket,
                            arg |-> defaultSerialize(data).text]>>]_vars

\* The drop has just been reported on a registered entry that is connecting
\* and does not queue.
C23_Witness ==
    \E i \in Instances :
        /\ Registered(i) /\ ~config[inst[i].key].queueMessages
        /\ inst[i].status = "connecting" /\ inst[i].refCount = 2
        /\ out = <<[op |-> "error", on |-> NULL,
                    arg |-> "Cannot send: not connected and queueMessages is false"]>>
        /\ inst[i].messageQueue = <<>>

\* Hook h is in the subscriber set of no entry.
Detached(h) == \A i \in Instances : ~Attached(h, i)

\* C24: in every state, disconnect() by a hook that is in no subscriber set
\* returns the heap as it found it (registry, entries with their reference
\* counts, subscriber sets, transports and statuses, timers, hooks); and for
\* every hook, attached or not, a second disconnect() changes nothing of what
\* the first one left.
C24_DetachedDisconnectIsNoOp ==
    \A h \in Hooks :
        /\ Detached(h) => disconnect(Cur, h) = Cur
        /\ disconnect(disconnect(Cur, h), h) = disconnect(Cur, h)

\* A hook that was attached, received a message and called disconnect(), next
\* to a connected entry that the other hook still holds.
C24_Witness ==
    \E i \in Instances :
        /\ Registered(i) /\ inst[i].subscribers = <<"h2">> /\ inst[i].refCount = 1
        /\ inst[i].status = "connected" /\ readyState(Cur, inst[i].socket) = "OPEN"
        /\ Detached("h1") /\ hook["h1"].status = "disconnected"
        /\ hook["h1"].allData = <<"m1">>

\* The step is a disconnect() by hook h that detaches it.  (Such a step
\* resets the hook's ref: steps that do not are told apart before the handler
\* is run.)
Detaches(h) ==
    /\ hook[h].isConnectedRef /\ ~hook'[h].isConnectedRef
    /\ DisconnectAnytime(h)

\* C25: a disconnect() by one of two or more subscribers of an entry takes the
\* caller out of the subscriber set, lowers the reference count by one and
\* sets the caller's status to disconnected, its last message and history kept;
\* every other field of the entry (status, kill flag, queue, retry counter,
\* timer, transport handle), the registry, the transports, the pending
\* timeouts and every other hook (status, last message, history) are unchanged.
C25_DisconnectOfOne ==
    [][\A h \in Hooks : \A i \in Instances :
          (Attached(h, i) /\ inst[i].refCount >= 2 /\ Detaches(h)) =>
              /\ hook'[h] = [hook[h] EXCEPT !.isConnectedRef = FALSE,
                                            !.status = "disconnected"]
              /\ \A g \in Hooks \ {h} : hook'[g] = hook[g]
              /\ inst'[i] = [inst[i] EXCEPT
                                !.subscribers = SelectSeq(@, LAMBDA g : g # h),
                                !.refCount = @ - 1]
              /\ \A j \in Instances \ {i} : inst'[j] = inst[j]
              /\ store' = store /\ ws' = ws /\ tmr' = tmr]_vars

\* One hook has left an entry that is waiting to reconnect with a message
\* queued; the other hook still observes reconnecting and holds the message
\* both received.
C25_Witness ==
    \E i \in Instances :
        /\ Registered(i) /\ inst[i].subscribers = <<"h2">> /\ inst[i].refCount = 1
        /\ inst[i].status = "reconnecting" /\ tmr[i] > 0
        /\ inst[i].reconnectAttemptsMade = 1 /\ inst[i].messageQueue = <<"m1">>
        /\ hook["h2"].status = "reconnecting" /\ hook["h2"].allData = <<"m1">>
        /\ ~hook["h1"].isConnectedRef /\ hook["h1"].status = "disconnected"
        /\ hook["h1"].allData = <<"m1">>

\* The step is an operation on key k: a call of a hook of that key, or a timer
\* or transport event of an instance of that key.
OnKey(k) ==
    \/ \E h \in Hooks : socketKey(h) = k /\
          (Mount(h) \/ Connect(h) \/ Disconnect(h) \/ Unmount(h) \/ Kill(h)
              \/ \E data \in Msgs : Send(h, data))
    \/ \E i \in Instances : inst[i].key = k /\ TimerFires(i)
    \/ \E w \in 1..Len(ws) : inst[ws[w].owner].key = k /\
          (SocketOpens(w) \/ SocketErrors(w) \/ SocketCloses(w))

\* The step leaves everything of key k as it was: its entry in the registry,
\* its instances and their timeouts, its transports and its hooks; and it
\* creates no instance and no transport of that key.
SameOfKey(k) ==
    /\ store'[k] = store[k]
    /\ \A h \in Hooks : socketKey(h) = k => hook'[h] = hook[h]
    /\ \A i \in 1..Len(inst') : inst'[i].key = k =>
          i <= Len(inst) /\ inst'[i] = inst[i] /\ tmr'[i] = tmr[i]
    /\ \A w \in 1..Len(ws') : inst'[ws'[w].owner].key = k =>
          w <= Len(ws) /\ ws'[w] = ws[w]

C29_ClearQueueFrame ==
    /\ [](\A k \in Keys : store[k] = NULL => clearQueue(Cur, k) = Cur)
    /\ [][\A k \in Keys : (store[k] # NULL /\ ClearQueue(k)) =>
             /\ inst' = [inst EXCEPT ![store[k]].messageQueue = <<>>]
             /\ store' = store /\ ws' = ws /\ tmr' = tmr /\ hook' = hook]_vars

\* The queue of key A has just been cleared on an entry that waits to
\* reconnect, while the entry of key B keeps its queued message.
C29_Witness ==
    \E i, j \in Instances :
        /\ Registered(i) /\ inst[i].key = "A" /\ inst[i].messageQueue = <<>>
        /\ inst[i].status = "reconnecting" /\ inst[i].reconnectAttemptsMade = 1
        /\ inst[i].refCount = 1 /\ tmr[i] > 0
        /\ Registered(j) /\ inst[j].key = "B" /\ inst[j].messageQueue = <<"m1">>

\* The socketKey ref of hook h has been computed.
Rendered(h) == use[h].socketKey # Undefined

\* The protocols of a call, as a set.
protocolSet(h) ==
    LET ps == use[h].options.protocols
    IN  {ps.value[n] : n \in 1..Len(ps.value)}

\* The calls of hooks h and g agree in the address and in every option that
\* decides sharing (parse and serialize are the defaults in every call).
SameSharingFields(h, g) ==
    LET c == NormalizedOptions(use[h].options)
        d == NormalizedOptions(use[g].options)
    IN  /\ use[h].url = use[g].url
        /\ protocolSet(h) = protocolSet(g)
        /\ c.autoReconnect = d.autoReconnect
        /\ c.reconnectAttempts = d.reconnectAttempts
        /\ c.reconnectDelay = d.reconnectDelay
        /\ c.queueMessages = d.queueMessages
        /\ c.maxQueueSize = d.maxQueueSize
        /\ c.key = d.key

\* C27: two hooks whose calls differ in the address, the protocols, one of the
\* reconnection or queue settings or the explicit key hold different keys.
C27_DifferentCallsDifferentKeys ==
    \A h, g \in Hooks :
        (Rendered(h) /\ Rendered(g) /\ ~SameSharingFields(h, g)) =>
            use[h].socketKey # use[g].socketKey

isPong(value) == value = Pong

\* Hook h was called with heartbeat: { enabled: true }.
HeartbeatEnabled(h) == orDefault(use[h].options.heartbeat, [enabled |-> FALSE]).enabled

\* C30: when the subscribers of an entry were called with heartbeat enabled,
\* the arrival of a frame whose message isPong accepts changes the last
\* message and the history of no hook.
C30_PongNotDelivered ==
    [][\A w \in 1..Len(ws) : \A value \in Msgs \cup {Pong} :
          (Arrives(w, defaultSerialize(value).text) /\ isPong(value)
             /\ \A h \in Hooks : Attached(h, ws[w].owner) => HeartbeatEnabled(h)) =>
              \A h \in Hooks :
                  /\ hook'[h].lastReturnedData = hook[h].lastReturnedData
                  /\ hook'[h].allData = hook[h].allData]_vars

\* C31: when the close event of a transport is handled, its entry holds no
\* transport handle afterwards; if the entry is not killed, its options ask
\* for reconnection, it has a subscriber and attempts remain, a reconnect
\* timeout is armed and every subscriber observes reconnecting; if it is
\* killed, or does not reconnect, or has no subscriber, the status becomes
\* disconnected, no timeout is armed and none is pending.
C31_CloseTransition ==
    [][\A w \in 1..Len(ws) : Closes(w) =>
          LET i == ws[w].owner
              c == config[inst[i].key]
          IN  /\ inst'[i].socket = NULL
              /\ IF Retries(i)
                 THEN ~Exhausted(inst[i].reconnectAttemptsMade, c.reconnectAttempts) =>
                         /\ Armed(i) /\ inst'[i].reconnectTimer
                         /\ AllObserveAfter(i, {"reconnecting"})
                 ELSE /\ AllObserveAfter(i, {"disconnected"})
                      /\ ~Armed(i) /\ tmr'[i] = 0 /\ ~inst'[i].reconnectTimer]_vars

\* The open transport of an entry that does not reconnect has closed: both
\* subscribers observe disconnected and the entry holds no handle.
C31_Witness ==
    \E i \in Instances :
        /\ Registered(i) /\ ~config[inst[i].key].autoReconnect /\ ~inst[i].killed
        /\ inst[i].refCount = 2 /\ inst[i].status = "disconnected"
        /\ inst[i].socket = NULL
        /\ hook["h1"].status = "disconnected" /\ hook["h2"].status = "disconnected"
        /\ \E w \in 1..Len(ws) : ws[w] = [phase |-> "CLOSED", owner |-> i]

\* C32: a transport that opens sets the retry counter of its entry to 0, and
\* when a transport that had opened closes on an entry that retries, the
\* reconnect timeout is armed as the first of a new series: the counter is 1
\* and the delay is reconnectDelay * 1.
C32_OpenResetsBudget ==
    [][\A i \in Instances :
          /\ Opened(i) => inst'[i].reconnectAttemptsMade = 0
          /\ \A w \in 1..Len(ws) :
                (ws[w].owner = i /\ ws[w].phase = "OPEN" /\ Closes(w) /\ Retries(i)) =>
                    /\ Armed(i)
                    /\ inst'[i].reconnectAttemptsMade = 1
                    /\ tmr'[i] = config[inst[i].key].reconnectDelay * 1]_vars

\* C33: in every reachable state the timeout pending for an instance is the
\* one its reconnectTimer handle names, and at most one instance of a key has
\* a timeout pending; and a step that creates a transport for an instance (a
\* connect() or the timeout's own callback), a step that sets its kill flag
\* and the step that removes it from the registry each leave no timeout
\* pending for it.
C33_OneTimerPerEntry ==
    /\ [](\A i \in Instances : (tmr[i] > 0) <=> inst[i].reconnectTimer)
    /\ [](\A k \in Keys :
            Cardinality({i \in Instances : inst[i].key = k /\ tmr[i] > 0}) <= 1)
    /\ [][\A i \in 1..Len(inst') :
             LET cancelling ==
                    \/ Attempts(i)
                    \/ i <= Len(inst) /\ ~inst[i].killed /\ inst'[i].killed
                    \/ i <= Len(inst) /\ Registered(i) /\ store'[inst[i].key] # i
             IN  cancelling => tmr'[i] = 0 /\ ~inst'[i].reconnectTimer]_vars

\* The timeout armed by the loss of the first transport is gone (it fired, or
\* a connect() cancelled it): the retry counter is 1, a second transport is
\* connecting and no timeout is pending.
C33_Witness ==
    \E i \in Instances :
        /\ Registered(i) /\ Retries(i)
        /\ inst[i].reconnectAttemptsMade = 1 /\ tmr[i] = 0
        /\ Len(ws) = 2 /\ ws[1] = [phase |-> "CLOSED", owner |-> i]
        /\ inst[i].socket = 2 /\ ws[2] = [phase |-> "CONNECTING", owner |-> i]
        /\ hook["h1"].status = "connecting"

\* C34: in every state and for every hook, a connect() that follows a
\* connect() of the same hook leaves the registry, the subscriber set and the
\* reference count of the entry as the first one left them, with the hook in
\* the set once; and one disconnect() after the two takes the hook out of
\* every subscriber set, resets its ref and leaves the reference count one
\* below.
C34_SecondConnectBindsNothing ==
    \A h \in Hooks : \A first, again \in BOOLEAN :
        LET S1 == connect(Cur, h, first)
            S2 == connect(S1, h, again)
            S3 == disconnect(S2, h)
            i  == storeGet(S1, socketKey(h))
        IN  /\ S2.store = S1.store
            /\ S2.inst[i].subscribers = S1.inst[i].subscribers
            /\ S2.inst[i].refCount = S1.inst[i].refCount
            /\ Len(SelectSeq(S2.inst[i].subscribers, LAMBDA g : g = h)) = 1
            /\ ~S3.hook[h].isConnectedRef
            /\ \A j \in 1..Len(S3.inst) : ~InSeq(h, S3.inst[j].subscribers)
            /\ S3.inst[i].refCount = S1.inst[i].refCount - 1

\* The only subscriber of an entry that was killed and then connected again:
\* the transport the kill closed is still closing, a second one is connecting
\* and the hook is counted once.
C34_Witness ==
    \E i \in Instances :
        /\ Registered(i) /\ inst[i].subscribers = <<"h1">> /\ inst[i].refCount = 1
        /\ hook["h1"].isConnectedRef /\ ~hook["h2"].isConnectedRef
        /\ ~inst[i].killed /\ inst[i].status = "connecting"
        /\ Len(ws) = 2 /\ ws[1] = [phase |-> "CLOSING", owner |-> i]
        /\ inst[i].socket = 2 /\ ws[2] = [phase |-> "CONNECTING", owner |-> i]

\* The transports created for key k that are connecting or open.
Live(k) ==
    {w \in 1..Len(ws) : inst[ws[w].owner].key = k /\ ws[w].phase \in {"CONNECTING", "OPEN"}}

\* C35: in every reachable state at most one of the transports created for a
\* key is connecting or open.
C35_OneLiveTransport ==
    \A k \in Keys : Cardinality(Live(k)) <= 1

\* An event of transport w is handled in the step: open, error, close, or a
\* frame (told apart from a frame on another transport of the same instance).
Delivers(w) ==
    \/ SocketOpens(w)
    \/ SocketErrors(w)
    \/ SocketCloses(w)
    \/ /\ \A v \in 1..Len(ws) : (v # w /\ ws[v].owner = ws[w].owner) =>
                                      ws[v].phase \notin {"OPEN", "CLOSING"}
       /\ \E text \in Frames : SocketMessage(w, text)

\* C36: the handling of an event of a transport that is not the one its entry
\* holds changes no hook (status, last message, history) and, on an entry that
\* is registered, neither the transport handle, the status, the retry counter
\* nor the reconnect timer.
C36_StaleEventsInert ==
    [][\A w \in 1..Len(ws) :
          LET i == ws[w].owner
          IN  (inst[i].socket # w /\ Delivers(w)) =>
                  /\ hook' = hook
                  /\ Registered(i) =>
                        /\ inst'[i].socket = inst[i].socket
                        /\ inst'[i].status = inst[i].status
                        /\ inst'[i].reconnectAttemptsMade = inst[i].reconnectAttemptsMade
                        /\ inst'[i].reconnectTimer = inst[i].reconnectTimer
                        /\ tmr'[i] = tmr[i]]_vars

\* C37: in every reachable state a registered entry whose status is connected
\* holds a transport handle, and that transport is open.
C37_ConnectedHoldsOpenTransport ==
    \A i \in Instances :
        (Registered(i) /\ inst[i].status = "connected") =>
            /\ inst[i].socket # NULL
            /\ readyState(Cur, inst[i].socket) = "OPEN"

C39_SendReturns ==
    \A h \in Hooks : \A data \in Msgs :
        LET c == config[socketKey(h)]
            R == send(Cur, h, data)
            i == storeGet(Cur, socketKey(h))
        IN  c.queueMessages =>
                /\ ~R.hung
                /\ i # NULL => Len(R.inst[i].messageQueue) <=
                                  (IF c.maxQueueSize > 0 THEN c.maxQueueSize ELSE 0)

====
